---- MODULE Spec2Model ----
(***************************************************************************)
(* Model of the IP & Clock Monitor HTTP server (package main).             *)
(*                                                                         *)
(* The repository holds two copies of the server program:                  *)
(*   - src/unnamed/part_002 (lines 250-461): main with loadConfig,         *)
(*     /api/config, /health, the method guards and the IPv6 fallback,      *)
(*     preceded by its tests (lines 1-248);                                *)
(*   - src/main.go (lines 1-106): main with /api/ip and the static route   *)
(*     only.                                                               *)
(* Definitions named after a function model the part_002 copy; those with  *)
(* the prefix main_ model the src/main.go copy where it differs.           *)
(*                                                                         *)
(* Strings the code parses (header values, remote addresses) are sequences *)
(* of one-character strings; strings it only copies (methods, paths,       *)
(* container ids, printed IPs) are TLA+ strings.                           *)
(***************************************************************************)
EXTENDS Integers, Sequences, FiniteSets, TLC

\* ------------------------------------------------------------------ bounds
MaxFwdLen == 3      \* longest X-Forwarded-For value enumerated
MaxAddrLen == 5     \* longest RemoteAddr enumerated
MaxAddrs == 3       \* longest interface address list enumerated
MaxConns == 2       \* requests in flight at once

\* --------------------------------------------------------------- constants
StatusOK == 200
StatusNotFound == 404
StatusMethodNotAllowed == 405

DefaultPort == "8080"

\* ------------------------------------------------------------------- state
VARIABLES
    env,     \* the process environment: PORT and CONTAINER_ID
    pc,      \* main's position: "init", "serving", "exited"; "test" in the test binary
    config,  \* the Config main loaded (NoConfig before)
    ifaces,  \* the host's interface table, what net.InterfaceAddrs returns
    conns,   \* per connection: the request being served, its log entries, its response
    unit     \* the test binary: the function under test, its arguments and results

vars == <<env, pc, config, ifaces, conns, unit>>

\* ----------------------------------------------------- strings as sequences
\* All sequences over alphabet S of length at most n.
RECURSIVE StrUpTo(_, _)
StrUpTo(S, n) ==
    IF n = 0 THEN {<<>>}
    ELSE LET shorter == StrUpTo(S, n - 1)
         IN shorter \cup {Append(s, c) : s \in shorter, c \in S}

\* strings.IndexByte, 1-based; 0 when the byte does not occur (Go: -1).
IndexByte(s, c) ==
    IF \E i \in 1..Len(s) : s[i] = c
    THEN CHOOSE i \in 1..Len(s) : s[i] = c /\ \A j \in 1..(i - 1) : s[j] # c
    ELSE 0

\* strings.LastIndexByte, 1-based; 0 when the byte does not occur.
LastIndexByte(s, c) ==
    IF \E i \in 1..Len(s) : s[i] = c
    THEN CHOOSE i \in 1..Len(s) : s[i] = c /\ \A j \in (i + 1)..Len(s) : s[j] # c
    ELSE 0

\* unicode.IsSpace, on the two representatives the model enumerates.
IsSpace(c) == c \in {" ", "\t"}

\* strings.Split(s, sep) for a one-byte separator: cut at every occurrence,
\* the remainder (possibly empty) is the last element.
RECURSIVE Split(_, _)
Split(s, sep) ==
    LET m == IndexByte(s, sep)
    IN IF m = 0 THEN <<s>>
       ELSE <<SubSeq(s, 1, m - 1)>> \o Split(SubSeq(s, m + 1, Len(s)), sep)

RECURSIVE TrimLeft(_)
TrimLeft(s) ==
    IF s # <<>> /\ IsSpace(Head(s)) THEN TrimLeft(Tail(s)) ELSE s

RECURSIVE TrimRight(_)
TrimRight(s) ==
    IF s # <<>> /\ IsSpace(s[Len(s)]) THEN TrimRight(SubSeq(s, 1, Len(s) - 1)) ELSE s

\* strings.TrimSpace
TrimSpace(s) == TrimRight(TrimLeft(s))

\* net.SplitHostPort as the Go standard library computes it, indices 1-based.
\* err = TRUE stands for any of its AddrErrors.
SplitHostPort(hostport) ==
    LET n == Len(hostport)
        i == LastIndexByte(hostport, ":")
        fail == [host |-> <<>>, port |-> <<>>, err |-> TRUE]
    IN IF i = 0 THEN fail                                   \* missing port
       ELSE IF hostport[1] = "["
       THEN LET end == IndexByte(hostport, "]")
            IN IF end = 0 THEN fail                          \* missing ']'
               ELSE IF end = n THEN fail                     \* missing port
               ELSE IF end + 1 # i THEN fail                 \* too many colons / missing port
               ELSE IF IndexByte(SubSeq(hostport, 2, n), "[") # 0 THEN fail
               ELSE IF IndexByte(SubSeq(hostport, end + 1, n), "]") # 0 THEN fail
               ELSE [host |-> SubSeq(hostport, 2, end - 1),
                     port |-> SubSeq(hostport, i + 1, n),
                     err  |-> FALSE]
       ELSE LET host == SubSeq(hostport, 1, i - 1)
            IN IF IndexByte(host, ":") # 0 THEN fail         \* too many colons
               ELSE IF IndexByte(hostport, "[") # 0 THEN fail
               ELSE IF IndexByte(hostport, "]") # 0 THEN fail
               ELSE [host |-> host,
                     port |-> SubSeq(hostport, i + 1, n),
                     err  |-> FALSE]

\* ------------------------------------------------------------- requests
\* A header or environment variable: set or not, and its value.
Unset == [set |-> FALSE, val |-> <<>>]
Hdr(v) == [set |-> TRUE, val |-> v]

\* http.Header.Get: the value, "" when the header is not set.
HeaderGet(h) == IF h.set THEN h.val ELSE <<>>


\* os.Getenv: the value, "" when the variable is not set.  Environment values
\* are TLA+ strings.
EnvUnset == [set |-> FALSE, val |-> ""]
EnvVal(v) == [set |-> TRUE, val |-> v]
Getenv(environ, key) == IF environ[key].set THEN environ[key].val ELSE ""

\* ------------------------------------------------------------ loadConfig
NoConfig == [Port |-> "", ContainerID |-> ""]

loadConfig(environ) ==
    LET port == Getenv(environ, "PORT")
        containerID == Getenv(environ, "CONTAINER_ID")
    IN [Port        |-> IF port = "" THEN DefaultPort ELSE port,
        ContainerID |-> IF containerID = "" THEN "N/A" ELSE containerID]

\* ----------------------------------------------------------- getClientIP
\* Variants of getClientIP with one slip each: the real-IP header checked
\* first; the real-IP header trimmed; the SplitHostPort error ignored.
getClientIP_realIPFirst(r) ==
    LET forwarded == HeaderGet(r.xff)
        realIP == HeaderGet(r.xri)
        hp == SplitHostPort(r.remote)
    IN IF realIP # <<>> THEN realIP
       ELSE IF forwarded # <<>> THEN TrimSpace(Split(forwarded, ",")[1])
       ELSE IF hp.err THEN r.remote
       ELSE hp.host

getClientIP_trimsRealIP(r) ==
    LET forwarded == HeaderGet(r.xff)
        realIP == HeaderGet(r.xri)
        hp == SplitHostPort(r.remote)
    IN IF forwarded # <<>> THEN TrimSpace(Split(forwarded, ",")[1])
       ELSE IF realIP # <<>> THEN TrimSpace(realIP)
       ELSE IF hp.err THEN r.remote
       ELSE hp.host

getClientIP_ignoresErr(r) ==
    LET forwarded == HeaderGet(r.xff)
        realIP == HeaderGet(r.xri)
        hp == SplitHostPort(r.remote)
    IN IF forwarded # <<>> THEN TrimSpace(Split(forwarded, ",")[1])
       ELSE IF realIP # <<>> THEN realIP
       ELSE hp.host

getClientIP(r) ==
    LET forwarded == HeaderGet(r.xff)
        realIP == HeaderGet(r.xri)
        hp == SplitHostPort(r.remote)
    IN IF forwarded # <<>> THEN TrimSpace(Split(forwarded, ",")[1])
       ELSE IF realIP # <<>> THEN realIP
       ELSE IF hp.err THEN r.remote
       ELSE hp.host

\* ----------------------------------------------------------- getServerIP
\* The host's interface table as net.InterfaceAddrs reports it: err, or a
\* list of *net.IPNet (the only address type the Linux build returns, so the
\* type assertion of the loop always succeeds).  v4 is To4() != nil; every
\* address has a 4- or 16-byte IP, so To16() != nil; text is IP.String().
To4(a) == a.v4
To16(a) == TRUE
IsLoopback(a) == a.loopback

\* The loop of getServerIP, ipv6Addr being the fallback found so far.
RECURSIVE scanAddrs(_, _)
scanAddrs(addrs, ipv6Addr) ==
    IF addrs = <<>>
    THEN IF ipv6Addr # "" THEN ipv6Addr ELSE "Unknown"
    ELSE LET a == Head(addrs)
         IN IF ~IsLoopback(a)
            THEN IF To4(a) THEN a.text
                 ELSE scanAddrs(Tail(addrs),
                                IF ipv6Addr = "" /\ To16(a) THEN a.text ELSE ipv6Addr)
            ELSE scanAddrs(Tail(addrs), ipv6Addr)

\* Variant of getServerIP that reports the fallback, found or not.
getServerIP_noSentinel(h) ==
    IF h.err THEN "Unknown"
    ELSE LET ip == scanAddrs(h.addrs, "") IN IF ip = "Unknown" THEN "" ELSE ip

getServerIP(h) == IF h.err THEN "Unknown" ELSE scanAddrs(h.addrs, "")

\* src/main.go: the loop returns the first non-loopback IPv4 address only.
RECURSIVE main_scanAddrs(_)
main_scanAddrs(addrs) ==
    IF addrs = <<>> THEN "Unknown"
    ELSE LET a == Head(addrs)
         IN IF ~IsLoopback(a) /\ To4(a) THEN a.text
            ELSE main_scanAddrs(Tail(addrs))

main_getServerIP(h) == IF h.err THEN "Unknown" ELSE main_scanAddrs(h.addrs)

\* ------------------------------------------------------------- responses
\* What the response sink holds after a handler returned: status, content
\* type and body.  A JSON body is the object json.Encoder wrote.
NoBody == [kind |-> "none", text |-> "", serverIP |-> "", clientIP |-> <<>>,
           containerID |-> ""]
TextBody(t) == [NoBody EXCEPT !.kind = "text", !.text = t]
EncodeIPResponse(v) ==
    [NoBody EXCEPT !.kind = "IPResponse", !.serverIP = v.ServerIP,
                   !.clientIP = v.ClientIP]
EncodeConfigResponse(v) ==
    [NoBody EXCEPT !.kind = "ConfigResponse", !.containerID = v.ContainerID]

NoResp == [status |-> 0, ctype |-> "", body |-> NoBody]

\* http.Error(w, msg, code)
httpError(msg, code) ==
    [status |-> code, ctype |-> "text/plain; charset=utf-8", body |-> TextBody(msg)]

\* Header().Set("Content-Type", "application/json") then Encode: the first
\* Write sends status 200.
writeJSON(body) ==
    [status |-> StatusOK, ctype |-> "application/json", body |-> body]

\* --------------------------------------------------------------- logging
\* slog.Info("Request", "method", ..., "path", ..., "remote_addr", ...)
RequestEntry(r) ==
    [msg |-> "Request", method |-> r.method, path |-> r.path, remote_addr |-> r.remote]

ServingEntry(v) ==
    [msg |-> "Serving IPs", server_ip |-> v.ServerIP, client_ip |-> v.ClientIP]

\* --------------------------------------------------------------- handlers
\* A handler maps the request (and what it reads: interface table,
\* environment, configuration, file system) to the response it writes and
\* the log entries it emits, in order.
handleIP(r, h) ==
    IF r.method # "GET"
    THEN [resp |-> httpError("Method not allowed", StatusMethodNotAllowed), log |-> <<>>]
    ELSE LET response == [ServerIP |-> getServerIP(h), ClientIP |-> getClientIP(r)]
         IN [resp |-> writeJSON(EncodeIPResponse(response)),
             log  |-> <<RequestEntry(r), ServingEntry(response)>>]

\* src/main.go: no method guard, IPv4-only getServerIP.
main_handleIP(r, h) ==
    LET response == [ServerIP |-> main_getServerIP(h), ClientIP |-> getClientIP(r)]
    IN [resp |-> writeJSON(EncodeIPResponse(response)),
        log  |-> <<RequestEntry(r), ServingEntry(response)>>]

\* Variant of handleConfigWithConfig that reads the environment per request.
handleConfigWithConfig_rereads(cfg, r) ==
    IF r.method # "GET"
    THEN [resp |-> httpError("Method not allowed", StatusMethodNotAllowed), log |-> <<>>]
    ELSE LET response == [ContainerID |-> loadConfig(env).ContainerID]
         IN [resp |-> writeJSON(EncodeConfigResponse(response)),
             log  |-> <<RequestEntry(r)>>]

handleConfigWithConfig(cfg, r) ==
    IF r.method # "GET"
    THEN [resp |-> httpError("Method not allowed", StatusMethodNotAllowed), log |-> <<>>]
    ELSE LET response == [ContainerID |-> cfg.ContainerID]
         IN [resp |-> writeJSON(EncodeConfigResponse(response)),
             log  |-> <<RequestEntry(r)>>]

\* Variant of handleConfig without the "N/A" default.
handleConfig_noDefault(r, environ) ==
    IF r.method # "GET"
    THEN [resp |-> httpError("Method not allowed", StatusMethodNotAllowed), log |-> <<>>]
    ELSE LET response == [ContainerID |-> Getenv(environ, "CONTAINER_ID")]
         IN [resp |-> writeJSON(EncodeConfigResponse(response)),
             log  |-> <<RequestEntry(r)>>]

handleConfig(r, environ) ==
    IF r.method # "GET"
    THEN [resp |-> httpError("Method not allowed", StatusMethodNotAllowed), log |-> <<>>]
    ELSE LET containerID == Getenv(environ, "CONTAINER_ID")
             response == [ContainerID |-> IF containerID = "" THEN "N/A" ELSE containerID]
         IN [resp |-> writeJSON(EncodeConfigResponse(response)),
             log  |-> <<RequestEntry(r)>>]

\* The /health closure of main, and the handler TestLogRequestMiddleware wraps.
health(r) ==
    [resp |-> [status |-> StatusOK, ctype |-> "", body |-> TextBody("OK")],
     log  |-> <<>>]

\* http.FileServer(http.Dir("static")): the file, or 404 when it is absent.
fs(r, found) ==
    [resp |-> IF found
              THEN [status |-> StatusOK, ctype |-> "", body |-> TextBody("file")]
              ELSE [status |-> StatusNotFound, ctype |-> "text/plain; charset=utf-8",
                    body |-> TextBody("404 page not found")],
     log  |-> <<>>]

\* handler.ServeHTTP(w, r) for the handler named name; x holds what the
\* handlers read besides the request.
ServeHTTP(name, r, x) ==
    CASE name = "handleIP" -> handleIP(r, x.host)
      [] name = "main_handleIP" -> main_handleIP(r, x.host)
      [] name = "handleConfigWithConfig" -> handleConfigWithConfig(x.config, r)
      [] name = "handleConfig" -> handleConfig(r, x.env)
      [] name = "health" -> health(r)
      [] name = "fs" -> fs(r, x.found)

\* logRequest(handler): the returned closure first logs, then delegates.
\* logRequestEnter is the slog.Info call, logRequestDelegate the
\* handler.ServeHTTP(w, r) call with the same sink and request.
\* Variants: a middleware that logs nothing; one that answers 200 itself
\* before it delegates.
logRequestEnter_silent(r) == <<>>
logRequestDelegate_forcesOK(name, r, x) ==
    LET out == ServeHTTP(name, r, x)
    IN [out EXCEPT !.resp.status = StatusOK]

logRequestEnter(r) == <<RequestEntry(r)>>
logRequestDelegate(name, r, x) == ServeHTTP(name, r, x)


\* ------------------------------------------------------------ input sets
Methods == {"GET", "POST", "PUT", "DELETE", "HEAD"}
ServerMethods == {"GET", "POST"}
Paths == {"/api/ip", "/api/config", "/health", "/"}

NoReq == [method |-> "", path |-> "", xff |-> Unset, xri |-> Unset, remote |-> <<>>]
Req(m, p, f, x, a) == [method |-> m, path |-> p, xff |-> f, xri |-> x, remote |-> a]

FwdAlphabet == {"1", "2", ",", " ", "\t"}
AddrAlphabet == {"1", ":", "[", "]"}

XRISamples == {Unset, Hdr(<<>>), Hdr(<<"7">>), Hdr(<<" ", "7", ",", "8", " ">>)}
RemoteSamples == {<<"1", ":", "8">>, <<"1">>, <<"[", ":", ":", "1", "]", ":", "8">>, <<>>}

\* Requests that vary the forwarding header, and requests that vary the
\* remote address with no header set to a non-empty value.
FwdInputs ==
    {Req("GET", "/api/ip", f, x, a) :
        f \in {Unset} \cup {Hdr(v) : v \in StrUpTo(FwdAlphabet, MaxFwdLen)},
        x \in XRISamples, a \in RemoteSamples}
AddrInputs ==
    {Req("GET", "/api/ip", f, x, a) :
        f \in {Unset, Hdr(<<>>)}, x \in {Unset, Hdr(<<>>)},
        a \in StrUpTo(AddrAlphabet, MaxAddrLen)}
ClientIPInputs == FwdInputs \cup AddrInputs

\* Header and address combinations for whole-handler calls.
HeaderSamples ==
    { <<Unset, Unset, <<"1", ":", "8">> >>,
      <<Hdr(<<",", "1">>), Unset, <<"1", ":", "8">> >>,
      <<Hdr(<<"1", ",", " ", "2">>), Hdr(<<"7">>), <<"1">> >>,
      <<Hdr(<<" ">>), Hdr(<<"7">>), <<"1", ":", "8">> >>,
      <<Unset, Unset, <<":", "8">> >>,
      <<Unset, Hdr(<<"7">>), <<>> >>,
      <<Unset, Unset, <<"[", "]", ":", "8">> >>,
      <<Unset, Unset, <<>> >> }
ServerHeaderSamples ==
    { <<Unset, Unset, <<"1", ":", "8">> >>,
      <<Hdr(<<",", "1">>), Hdr(<<"7">>), <<"1">> >> }

HandlerInputs ==
    {Req(m, p, t[1], t[2], t[3]) : m \in Methods, p \in Paths, t \in HeaderSamples}
ServerInputs ==
    {Req(m, p, t[1], t[2], t[3]) : m \in ServerMethods, p \in Paths, t \in ServerHeaderSamples}

lo4 == [v4 |-> TRUE, loopback |-> TRUE, text |-> "127.0.0.1"]
a4 == [v4 |-> TRUE, loopback |-> FALSE, text |-> "10.0.0.5"]
lo6 == [v4 |-> FALSE, loopback |-> TRUE, text |-> "::1"]
a6 == [v4 |-> FALSE, loopback |-> FALSE, text |-> "fe80::1"]
b6 == [v4 |-> FALSE, loopback |-> FALSE, text |-> "2001:db8::1"]
AddrPool == {lo4, a4, lo6, a6, b6}

EnumFailed == [err |-> TRUE, addrs |-> <<>>]
Table(addrs) == [err |-> FALSE, addrs |-> addrs]
HostTables == {EnumFailed} \cup {Table(s) : s \in StrUpTo(AddrPool, MaxAddrs)}
HostSamples == {EnumFailed, Table(<<lo4, a6, a4>>), Table(<<lo6, a6, b6>>), Table(<<lo4>>)}
ServerHostSamples == {Table(<<lo4, a6, a4>>), Table(<<lo6, a6, b6>>)}

PortValues == {EnvUnset, EnvVal("9090")}
ContainerIDValues == {EnvUnset, EnvVal(""), EnvVal("test-container-123")}

\* ------------------------------------------------------------ connections
Conns == 1..MaxConns

Idle == [st |-> "idle", name |-> "", via |-> "", req |-> NoReq, log |-> <<>>,
         resp |-> NoResp, calls |-> 0]

NoUnit == [pc |-> "idle", fn |-> "", name |-> "", req |-> NoReq, host |-> EnumFailed,
           log |-> <<>>, resp |-> NoResp, str |-> <<>>, ip |-> "", cfg |-> NoConfig,
           calls |-> 0]

\* What the handlers read besides the request.
Reads(found) == [host |-> ifaces, env |-> env, config |-> config, found |-> found]

\* http.ServeMux of main (part_002): exact patterns, "/" catches the rest.
Route(path) ==
    CASE path = "/api/ip" -> "handleIP"
      [] path = "/api/config" -> "handleConfigWithConfig"
      [] path = "/health" -> "health"
      [] OTHER -> "fs"

\* http.ServeMux of main (src/main.go).
main_Route(path) == IF path = "/api/ip" THEN "main_handleIP" ELSE "fs"

\* A handler registered without logRequest runs to completion.
Direct(c, name, r) ==
    LET out == ServeHTTP(name, r, Reads(FALSE))
    IN conns' = [conns EXCEPT ![c] =
                    [st |-> "done", name |-> name, via |-> "direct", req |-> r,
                     log |-> out.log, resp |-> out.resp, calls |-> 1]]

\* ---------------------------------------------------- the server, part_002
Init ==
    /\ env \in [{"PORT", "CONTAINER_ID"} -> PortValues \cup ContainerIDValues]
    /\ env["PORT"] \in PortValues
    /\ env["CONTAINER_ID"] \in ContainerIDValues
    /\ pc = "init"
    /\ config = NoConfig
    /\ ifaces \in ServerHostSamples
    /\ conns = [c \in Conns |-> Idle]
    /\ unit = NoUnit

\* main: loadConfig, register the routes, ListenAndServe.
Startup ==
    /\ pc = "init"
    /\ config' = loadConfig(env)
    /\ pc' = "serving"
    /\ UNCHANGED <<env, ifaces, conns, unit>>

\* main: ListenAndServe returns an error, os.Exit(1).
ListenFail ==
    /\ pc = "init"
    /\ config' = loadConfig(env)
    /\ pc' = "exited"
    /\ UNCHANGED <<env, ifaces, conns, unit>>

\* The CONTAINER_ID variable of the environment changes (os.Setenv, t.Setenv).
Setenv(v) ==
    /\ pc \in {"init", "serving"}
    /\ env["CONTAINER_ID"] # v
    /\ env' = [env EXCEPT !["CONTAINER_ID"] = v]
    /\ UNCHANGED <<pc, config, ifaces, conns, unit>>

ServeIP(c, r) ==
    /\ pc = "serving" /\ conns[c].st = "idle"
    /\ Route(r.path) = "handleIP"
    /\ Direct(c, "handleIP", r)
    /\ UNCHANGED <<env, pc, config, ifaces, unit>>

ServeConfig(c, r) ==
    /\ pc = "serving" /\ conns[c].st = "idle"
    /\ Route(r.path) = "handleConfigWithConfig"
    /\ Direct(c, "handleConfigWithConfig", r)
    /\ UNCHANGED <<env, pc, config, ifaces, unit>>

ServeHealth(c, r) ==
    /\ pc = "serving" /\ conns[c].st = "idle"
    /\ Route(r.path) = "health"
    /\ Direct(c, "health", r)
    /\ UNCHANGED <<env, pc, config, ifaces, unit>>

\* logRequest(fs), first half: the "Request" entry is logged.
ServeStatic(c, r) ==
    /\ pc = "serving" /\ conns[c].st = "idle"
    /\ Route(r.path) = "fs"
    /\ conns' = [conns EXCEPT ![c] =
                    [st |-> "logged", name |-> "fs", via |-> "logRequest", req |-> r,
                     log |-> logRequestEnter(r), resp |-> NoResp, calls |-> 0]]
    /\ UNCHANGED <<env, pc, config, ifaces, unit>>

\* logRequest(fs), second half: the file server writes the response.
StaticDelegate(c, found) ==
    /\ conns[c].st = "logged"
    /\ LET out == logRequestDelegate(conns[c].name, conns[c].req, Reads(found))
       IN conns' = [conns EXCEPT ![c].st = "done",
                                 ![c].log = conns[c].log \o out.log,
                                 ![c].resp = out.resp,
                                 ![c].calls = conns[c].calls + 1]
    /\ UNCHANGED <<env, pc, config, ifaces, unit>>

\* The response is sent and the connection is free again.
Close(c) ==
    /\ conns[c].st = "done"
    /\ conns' = [conns EXCEPT ![c] = Idle]
    /\ UNCHANGED <<env, pc, config, ifaces, unit>>

Next ==
    \/ Startup
    \/ ListenFail
    \/ \E v \in ContainerIDValues : Setenv(v)
    \/ \E c \in Conns, r \in ServerInputs : ServeIP(c, r)
    \/ \E c \in Conns, r \in ServerInputs : ServeConfig(c, r)
    \/ \E c \in Conns, r \in ServerInputs : ServeHealth(c, r)
    \/ \E c \in Conns, r \in ServerInputs : ServeStatic(c, r)
    \/ \E c \in Conns, found \in BOOLEAN : StaticDelegate(c, found)
    \/ \E c \in Conns : Close(c)

Spec == Init /\ [][Next]_vars

\* --------------------------------------------------- the server, src/main.go
main_Init ==
    /\ Init

\* main: register the routes, ListenAndServe(":8080").
main_Startup ==
    /\ pc = "init"
    /\ pc' = "serving"
    /\ UNCHANGED <<env, config, ifaces, conns, unit>>

main_ListenFail ==
    /\ pc = "init"
    /\ pc' = "exited"
    /\ UNCHANGED <<env, config, ifaces, conns, unit>>

main_ServeIP(c, r) ==
    /\ pc = "serving" /\ conns[c].st = "idle"
    /\ main_Route(r.path) = "main_handleIP"
    /\ Direct(c, "main_handleIP", r)
    /\ UNCHANGED <<env, pc, config, ifaces, unit>>

main_ServeStatic(c, r) ==
    /\ pc = "serving" /\ conns[c].st = "idle"
    /\ main_Route(r.path) = "fs"
    /\ conns' = [conns EXCEPT ![c] =
                    [st |-> "logged", name |-> "fs", via |-> "logRequest", req |-> r,
                     log |-> logRequestEnter(r), resp |-> NoResp, calls |-> 0]]
    /\ UNCHANGED <<env, pc, config, ifaces, unit>>

main_Next ==
    \/ main_Startup
    \/ main_ListenFail
    \/ \E c \in Conns, r \in ServerInputs : main_ServeIP(c, r)
    \/ \E c \in Conns, r \in ServerInputs : main_ServeStatic(c, r)
    \/ \E c \in Conns, found \in BOOLEAN : StaticDelegate(c, found)
    \/ \E c \in Conns : Close(c)

SpecMain == main_Init /\ [][main_Next]_vars


\* ------------------------------------------- the test binary, part_002:1-248
\* The tests call the functions directly, one call at a time, on requests
\* built with httptest.NewRequest and an environment set with t.Setenv.
UnitReads(found) ==
    [host |-> unit.host, env |-> env, config |-> loadConfig(env), found |-> found]

WrappedNames == {"health", "fs", "handleIP", "handleConfig"}

UnitInit ==
    /\ env \in [{"PORT", "CONTAINER_ID"} -> PortValues \cup ContainerIDValues]
    /\ env["PORT"] \in PortValues
    /\ env["CONTAINER_ID"] \in ContainerIDValues
    /\ pc = "test"
    /\ config = NoConfig
    /\ ifaces = EnumFailed
    /\ conns = [c \in Conns |-> Idle]
    /\ unit = NoUnit

\* t.Setenv("CONTAINER_ID", v) between two calls.
TestSetenv(v) ==
    /\ unit.pc = "idle"
    /\ env["CONTAINER_ID"] # v
    /\ env' = [env EXCEPT !["CONTAINER_ID"] = v]
    /\ UNCHANGED <<pc, config, ifaces, conns, unit>>

CallGetClientIP(r) ==
    /\ unit.pc = "idle"
    /\ unit' = [NoUnit EXCEPT !.pc = "done", !.fn = "getClientIP", !.req = r,
                              !.str = getClientIP(r), !.calls = 1]
    /\ UNCHANGED <<env, pc, config, ifaces, conns>>

CallGetServerIP(h) ==
    /\ unit.pc = "idle"
    /\ unit' = [NoUnit EXCEPT !.pc = "done", !.fn = "getServerIP", !.host = h,
                              !.ip = getServerIP(h), !.calls = 1]
    /\ UNCHANGED <<env, pc, config, ifaces, conns>>

CallLoadConfig ==
    /\ unit.pc = "idle"
    /\ unit' = [NoUnit EXCEPT !.pc = "done", !.fn = "loadConfig",
                              !.cfg = loadConfig(env), !.calls = 1]
    /\ UNCHANGED <<env, pc, config, ifaces, conns>>

\* handleIP(w, req), handleConfig(w, req), and handleConfigWithConfig(
\* loadConfig())(w, req) as main composes it.
CallHandler(name, r, h) ==
    /\ unit.pc = "idle"
    /\ LET out == ServeHTTP(name, r, [host |-> h, env |-> env,
                                      config |-> loadConfig(env), found |-> FALSE])
       IN unit' = [NoUnit EXCEPT !.pc = "done", !.fn = name, !.name = name, !.req = r,
                                 !.host = h, !.log = out.log, !.resp = out.resp,
                                 !.calls = 1]
    /\ UNCHANGED <<env, pc, config, ifaces, conns>>

\* wrapped := logRequest(handler); wrapped.ServeHTTP(w, req): the log entry.
CallLogRequest(name, r, h) ==
    /\ unit.pc = "idle"
    /\ unit' = [NoUnit EXCEPT !.pc = "logged", !.fn = "logRequest", !.name = name,
                              !.req = r, !.host = h, !.log = logRequestEnter(r)]
    /\ UNCHANGED <<env, pc, config, ifaces, conns>>

\* ... then the wrapped handler runs on the same sink and request.
LogRequestDelegate(found) ==
    /\ unit.pc = "logged"
    /\ LET out == logRequestDelegate(unit.name, unit.req, UnitReads(found))
       IN unit' = [unit EXCEPT !.pc = "done", !.log = unit.log \o out.log,
                               !.resp = out.resp, !.calls = unit.calls + 1]
    /\ UNCHANGED <<env, pc, config, ifaces, conns>>

\* The test case ends.
Reset ==
    /\ unit.pc = "done"
    /\ unit' = NoUnit
    /\ UNCHANGED <<env, pc, config, ifaces, conns>>

\* The inputs are drawn only when the test binary is between two calls.
UnitNext ==
    \/ \E v \in ContainerIDValues : TestSetenv(v)
    \/ unit.pc = "idle" /\ \E r \in ClientIPInputs : CallGetClientIP(r)
    \/ unit.pc = "idle" /\ \E h \in HostTables : CallGetServerIP(h)
    \/ CallLoadConfig
    \/ unit.pc = "idle" /\ \E name \in {"handleIP", "handleConfig", "handleConfigWithConfig"},
                              r \in HandlerInputs, h \in HostSamples : CallHandler(name, r, h)
    \/ unit.pc = "idle" /\ \E name \in WrappedNames, r \in HandlerInputs, h \in HostSamples :
                              CallLogRequest(name, r, h)
    \/ \E found \in BOOLEAN : LogRequestDelegate(found)
    \/ Reset

SpecUnit == UnitInit /\ [][UnitNext]_vars


\* ===================================================================
\* Properties
\* ===================================================================
JSONKinds == {"IPResponse", "ConfigResponse"}
GuardedHandlers == {"handleIP", "main_handleIP", "handleConfig", "handleConfigWithConfig"}

Served(c) == conns[c].st = "done"
Called(fn) == unit.pc = "done" /\ unit.fn = fn

\* The text before the first comma of v (all of v when it has no comma).
FirstElement(v) ==
    LET commas == {i \in 1..Len(v) : v[i] = ","}
        k == IF commas = {} THEN Len(v) + 1
             ELSE CHOOSE i \in commas : \A j \in commas : i <= j
    IN SubSeq(v, 1, k - 1)

\* t is e without its leading and trailing whitespace.
IsTrimOf(t, e) ==
    \E i \in 1..(Len(e) + 1), j \in 0..Len(e) :
        /\ t = SubSeq(e, i, j)
        /\ \A k \in 1..(i - 1) : IsSpace(e[k])
        /\ \A k \in (j + 1)..Len(e) : IsSpace(e[k])
        /\ t # <<>> => ~IsSpace(t[1]) /\ ~IsSpace(t[Len(t)])

Blank(e) == \A k \in 1..Len(e) : IsSpace(e[k])

Has(s, chars) == \E i \in 1..Len(s) : s[i] \in chars

\* a is host ":" port, neither part holding a colon or a bracket; k is the colon.
PlainSplit(a, k) ==
    /\ k \in 1..Len(a) /\ a[k] = ":"
    /\ ~Has(SubSeq(a, 1, k - 1), {":", "[", "]"})
    /\ ~Has(SubSeq(a, k + 1, Len(a)), {":", "[", "]"})

\* a is "[" literal "]:" port, the literal without brackets, the port
\* without colon or bracket; k is the colon after the "]".
BracketSplit(a, k) ==
    /\ k \in 3..Len(a) /\ a[1] = "[" /\ a[k - 1] = "]" /\ a[k] = ":"
    /\ ~Has(SubSeq(a, 2, k - 2), {"[", "]"})
    /\ ~Has(SubSeq(a, k + 1, Len(a)), {":", "[", "]"})

\* The address the selection policy names: the first non-loopback IPv4
\* address, else the first non-loopback IPv6 address, else "Unknown".
ExpectedServerIP(h) ==
    LET idx4 == {i \in 1..Len(h.addrs) : ~h.addrs[i].loopback /\ h.addrs[i].v4}
        idx6 == {i \in 1..Len(h.addrs) : ~h.addrs[i].loopback /\ ~h.addrs[i].v4}
        first(S) == CHOOSE i \in S : \A j \in S : i <= j
    IN IF h.err THEN "Unknown"
       ELSE IF idx4 # {} THEN h.addrs[first(idx4)].text
       ELSE IF idx6 # {} THEN h.addrs[first(idx6)].text
       ELSE "Unknown"

\* C1: a request whose method is not GET is answered by handleIP and
\* handleConfig with status 405 and no JSON body; status 200 only for GET.
\* (Stated for every copy of the handlers; src/main.go's handleIP breaks it.)
C1_NonGetRejected ==
    \A c \in Conns :
        Served(c) /\ conns[c].name \in GuardedHandlers =>
            /\ conns[c].req.method # "GET" =>
                  /\ conns[c].resp.status = StatusMethodNotAllowed
                  /\ conns[c].resp.body.kind \notin JSONKinds
            /\ conns[c].resp.status = StatusOK => conns[c].req.method = "GET"

\* C2: with a non-empty X-Forwarded-For, getClientIP returns the first
\* comma-separated element, trimmed, whatever follows it and whatever
\* X-Real-IP and the remote address are.
C2_ForwardedFirstElement ==
    Called("getClientIP") /\ HeaderGet(unit.req.xff) # <<>> =>
        IsTrimOf(unit.str, FirstElement(unit.req.xff.val))

C2_Witness ==
    /\ Called("getClientIP")
    /\ Has(unit.req.xff.val, {","}) /\ IsSpace(unit.req.xff.val[1])
    /\ HeaderGet(unit.req.xri) # <<>>
    /\ unit.str = <<"1">>

\* C3: with X-Forwarded-For absent or empty and a non-empty X-Real-IP,
\* getClientIP returns X-Real-IP verbatim; an empty forwarding header gives
\* what an absent one gives.
C3_RealIPVerbatim ==
    Called("getClientIP") /\ HeaderGet(unit.req.xff) = <<>> =>
        /\ unit.req.xri.set /\ unit.req.xri.val # <<>> => unit.str = unit.req.xri.val
        /\ unit.str = getClientIP([unit.req EXCEPT !.xff = Unset])

C3_Witness ==
    /\ Called("getClientIP")
    /\ unit.req.xff = Hdr(<<>>)
    /\ unit.req.xri = Hdr(<<" ", "7", ",", "8", " ">>)
    /\ unit.str = <<" ", "7", ",", "8", " ">>

\* C4: with neither header set to a non-empty value, getClientIP returns the
\* host of host:port, the literal of [literal]:port, and the remote address
\* unchanged when it has neither form.
C4_RemoteAddrHost ==
    Called("getClientIP") /\ HeaderGet(unit.req.xff) = <<>> /\ HeaderGet(unit.req.xri) = <<>> =>
        LET a == unit.req.remote
        IN /\ \A k \in 1..Len(a) : PlainSplit(a, k) => unit.str = SubSeq(a, 1, k - 1)
           /\ \A k \in 1..Len(a) : BracketSplit(a, k) => unit.str = SubSeq(a, 2, k - 2)
           /\ (\A k \in 1..Len(a) : ~PlainSplit(a, k) /\ ~BracketSplit(a, k)) => unit.str = a

C4_Witness ==
    /\ Called("getClientIP")
    /\ HeaderGet(unit.req.xff) = <<>> /\ HeaderGet(unit.req.xri) = <<>>
    /\ unit.req.remote = <<"[", ":", "]", ":", "1">>
    /\ unit.str = <<":">>

\* When getClientIP yields the empty string: a blank first element of the
\* forwarding header, or no header and a remote address that is empty or
\* has an empty host.
EmptyClientCase(r) ==
    \/ HeaderGet(r.xff) # <<>> /\ Blank(FirstElement(r.xff.val))
    \/ /\ HeaderGet(r.xff) = <<>> /\ HeaderGet(r.xri) = <<>>
       /\ \/ r.remote = <<>>
          \/ PlainSplit(r.remote, 1)
          \/ BracketSplit(r.remote, 3)

\* C5 as stated: every GET to handleIP gets 200 and a JSON body with
\* non-empty serverIP and clientIP, the results of getServerIP and getClientIP.
C5_BothFieldsNonEmpty ==
    Called("handleIP") /\ unit.req.method = "GET" =>
        /\ unit.resp.status = StatusOK
        /\ unit.resp.body.kind = "IPResponse"
        /\ unit.resp.body.serverIP # "" /\ unit.resp.body.clientIP # <<>>
        /\ unit.resp.body.serverIP = getServerIP(unit.host)
        /\ unit.resp.body.clientIP = getClientIP(unit.req)

\* C5 (amended): every GET to handleIP gets 200 and a JSON body whose
\* serverIP is the non-empty result of getServerIP and whose clientIP is the
\* result of getClientIP, which is empty exactly in the EmptyClientCase.
C5_FieldsFromResolvers ==
    Called("handleIP") /\ unit.req.method = "GET" =>
        /\ unit.resp.status = StatusOK
        /\ unit.resp.ctype = "application/json"
        /\ unit.resp.body.kind = "IPResponse"
        /\ unit.resp.body.serverIP # ""
        /\ unit.resp.body.serverIP = ExpectedServerIP(unit.host)
        /\ unit.resp.body.clientIP = getClientIP(unit.req)
        /\ unit.resp.body.clientIP = <<>> <=> EmptyClientCase(unit.req)

C5_Witness ==
    /\ Called("handleIP") /\ unit.req.method = "GET"
    /\ unit.req.xff = Hdr(<<",", "1">>)
    /\ unit.resp.status = StatusOK
    /\ unit.resp.body.clientIP = <<>>
    /\ unit.resp.body.serverIP = "Unknown"

\* C6: getServerIP returns the first non-loopback IPv4 address, else the
\* first non-loopback IPv6 address, else "Unknown"; never the empty string.
\* (Stated on the serverIP that src/main.go's handleIP reports.)
C6_ServerIPSelection ==
    \A c \in Conns :
        Served(c) /\ conns[c].name = "main_handleIP" =>
            /\ conns[c].resp.body.serverIP = ExpectedServerIP(ifaces)
            /\ conns[c].resp.body.serverIP # ""

\* The same selection policy on the part_002 copy of getServerIP.
GetServerIPSelection ==
    Called("getServerIP") => unit.ip = ExpectedServerIP(unit.host) /\ unit.ip # ""

\* The method guard on the part_002 copy of the handlers.
NonGetRejectedByServer ==
    \A c \in Conns :
        Served(c) /\ conns[c].name \in {"handleIP", "handleConfigWithConfig"} =>
            /\ conns[c].req.method # "GET" =>
                  /\ conns[c].resp.status = StatusMethodNotAllowed
                  /\ conns[c].resp.body.kind \notin JSONKinds
            /\ conns[c].resp.status = StatusOK => conns[c].req.method = "GET"

\* C7: every GET to the config handler gets 200 and {"containerID": v}, v
\* being "N/A" when CONTAINER_ID is unset or empty and its value otherwise.
C7_ContainerIDOrDefault ==
    unit.pc = "done" /\ unit.fn \in {"handleConfig", "handleConfigWithConfig"}
                     /\ unit.req.method = "GET" =>
        /\ unit.resp.status = StatusOK
        /\ unit.resp.ctype = "application/json"
        /\ unit.resp.body.kind = "ConfigResponse"
        /\ unit.resp.body.containerID =
              IF ~env["CONTAINER_ID"].set \/ env["CONTAINER_ID"].val = ""
              THEN "N/A" ELSE env["CONTAINER_ID"].val

C7_Witness ==
    /\ Called("handleConfig") /\ unit.req.method = "GET"
    /\ env["CONTAINER_ID"] = EnvVal("")
    /\ unit.resp.body.containerID = "N/A"

\* C8: the configuration is loaded once, before any request is served, and
\* never changes; every 200 of /api/config carries its containerID, also
\* after CONTAINER_ID changed in the environment.
C8_ConfigReadOnce ==
    /\ [](\A c \in Conns :
            Served(c) /\ conns[c].req.path = "/api/config"
                      /\ conns[c].resp.status = StatusOK =>
                /\ pc = "serving"
                /\ conns[c].resp.body.containerID = config.ContainerID)
    /\ [][/\ pc = "init" /\ pc' # "init" => config' = loadConfig(env)
          /\ pc # "init" => config' = config]_vars

C8_Witness ==
    \E c \in Conns :
        /\ Served(c) /\ conns[c].req.path = "/api/config"
        /\ conns[c].resp.status = StatusOK
        /\ conns[c].resp.body.containerID = "N/A"
        /\ env["CONTAINER_ID"] = EnvVal("test-container-123")

\* C9: logRequest(h) logs one "Request" entry (method, path, remote address)
\* before h starts, then runs h exactly once on the same request; status and
\* body are the ones h writes.
C9_LogThenDelegate ==
    unit.fn = "logRequest" =>
        LET entry == [msg |-> "Request", method |-> unit.req.method,
                      path |-> unit.req.path, remote_addr |-> unit.req.remote]
        IN /\ unit.pc = "logged" =>
                 unit.log = <<entry>> /\ unit.calls = 0 /\ unit.resp = NoResp
           /\ unit.pc = "done" =>
                 /\ unit.calls = 1
                 /\ \E found \in BOOLEAN :
                       LET direct == ServeHTTP(unit.name, unit.req, UnitReads(found))
                       IN /\ unit.resp = direct.resp
                          /\ unit.log = <<entry>> \o direct.log

C9_Witness ==
    /\ Called("logRequest") /\ unit.name = "fs"
    /\ unit.resp.status = StatusNotFound
    /\ Len(unit.log) = 1

HasRequestEntry(c) ==
    /\ conns[c].log # <<>>
    /\ conns[c].log[1] = [msg |-> "Request", method |-> conns[c].req.method,
                          path |-> conns[c].req.path,
                          remote_addr |-> conns[c].req.remote]

\* C10 as stated: every request, on every route and with every method,
\* also one that ends in 405, has its "Request" entry logged before the
\* response is written.
C10_EveryRequestLogged ==
    \A c \in Conns : Served(c) => HasRequestEntry(c)

\* C10 (amended): every request on the static route, and every GET on
\* /api/ip and /api/config, has its "Request" entry logged before the
\* response is written; on the static route before the file server starts.
C10_LoggedRoutes ==
    \A c \in Conns :
        /\ conns[c].st = "logged" =>
              HasRequestEntry(c) /\ conns[c].resp = NoResp /\ conns[c].calls = 0
        /\ Served(c) /\ (conns[c].name = "fs" \/
                          (conns[c].name \in {"handleIP", "handleConfigWithConfig"}
                             /\ conns[c].req.method = "GET")) =>
              HasRequestEntry(c)

C10_Witness ==
    \E c, d \in Conns :
        /\ conns[c].st = "logged" /\ conns[c].req.method = "POST"
        /\ Served(d) /\ conns[d].name = "handleIP" /\ conns[d].req.method = "GET"
        /\ HasRequestEntry(d)

====
